---- MODULE Spec2Model ----
(***************************************************************************)
(* Model of the portfolio site: the MDX content pipeline                    *)
(* (src/unnamed/part_007): the slug deriver, the default node transformers *)
(* and the merge of caller overrides over the default component table.     *)
(*                                                                         *)
(* A JavaScript string is a sequence of one-character strings.  A          *)
(* ReactNode is a record tagged by `kind`: "string", "element", "array",   *)
(* "undefined", "null", "number" or "boolean".                             *)
(***************************************************************************)
EXTENDS Integers, Sequences, FiniteSets, TLC

VARIABLES
    arg,        \* slugify: the argument of the current call
    ret,        \* slugify: [done, val], the value the call returned
    fed,        \* slugify: [done, val], the slug that was passed back in as text
    given,      \* CustomMDX: [present, map], the `components` prop of the call
    table,      \* CustomMDX: [set, map], the components table handed to MDXRemote
    tag,        \* MDXRemote: [set, name], the tag or node kind being rendered
    used,       \* MDXRemote: [set, val], the renderer looked up for that tag
    defaults,   \* the module-level `components` object of the MDX module
    node,       \* transformer call: the node (tag and props) being rendered
    out,        \* transformer call: what the transformer returned
    log,        \* console.error: the messages logged so far
    doc,        \* document render: the nodes of the content, in order
    outs,       \* document render: what the nodes rendered so far returned
    aborted,    \* document render: a transformer threw and the render ended
    request,    \* auth route: [present, cookies], the request's cookie header
    response,   \* auth route: [sent, status, authenticated], the response
    posts,      \* Projects: the post records getPosts returned
    range,      \* Projects: the range prop, a tuple of 0, 1 or 2 numbers
    displayed,  \* Projects: [done, list], the posts handed to ProjectCard
    barrel,     \* module cache: state of the module "@/once-ui/components"
    registry,   \* MDX module: "none", "built" or "failed"
    wrappers,   \* per dynamic tag: [status, calls] of its dynamic() wrapper
    slots,      \* concurrent renders: per render, [phase, given, table, tag, used]
    past,       \* names overridden by CustomMDX calls that have returned
    numProps,   \* NumberInput: [value, min, max, step, padStart], its props
    localValue, \* NumberInput: the displayed text (the localValue state)
    reported,   \* NumberInput: the onChange calls so far, [by, value] each
    pressed,    \* NumberInput: [op, before, calls], the last handler run, the
                \* text displayed and the number of onChange calls before it
    fxProps,    \* GlitchFx: [trigger, continuous, interval], its props
    mounted,    \* GlitchFx: the component is mounted
    isGlitching, \* GlitchFx: the isGlitching state
    glitchInterval, \* GlitchFx: [active, due], the setInterval timer
    timeouts,   \* GlitchFx: due times of the pending 500 ms timeouts
    now,        \* GlitchFx: the time of the last timer callback, in ms
    lastTick,   \* GlitchFx: time of the last interval tick, -1 before the first
    lastMouse,  \* GlitchFx: "none", "enter" or "leave", the last mouse event
    propChanges \* GlitchFx: how many times the trigger prop has changed

slugVars == <<arg, ret, fed>>
mdxVars == <<given, table, tag, used>>
nodeVars == <<node, out>>
docVars == <<doc, outs, aborted>>
authVars == <<request, response>>
projVars == <<posts, range, displayed>>
dynVars == <<barrel, registry, wrappers>>
parVars == <<slots, past>>
numVars == <<numProps, localValue, reported, pressed>>
fxVars == <<fxProps, mounted, isGlitching, glitchInterval, timeouts, now,
            lastTick, lastMouse, propChanges>>
vars == <<arg, ret, fed, given, table, tag, used, defaults, node, out, log,
          doc, outs, aborted, request, response, posts, range, displayed,
          barrel, registry, wrappers, slots, past,
          numProps, localValue, reported, pressed,
          fxProps, mounted, isGlitching, glitchInterval, timeouts, now,
          lastTick, lastMouse, propChanges>>

(***************************************************************************)
(* Bounds of the model.                                                    *)
(***************************************************************************)
MaxLen == 3         \* longest enumerated plain-text heading
MaxDepth == 2       \* deepest enumerated nesting of heading content
MaxOverrides == 2   \* most entries in an enumerated override map
MaxHref == 2        \* longest enumerated link target
MaxLang == 2        \* longest enumerated language name of a code block
MaxDoc == 2         \* most nodes in an enumerated document
MaxCookies == 2     \* most cookie pairs in an enumerated cookie header
MaxPosts == 3       \* most posts in an enumerated project directory
MaxReports == 3     \* most onChange calls of NumberInput in a behaviour
MaxTime == 3100     \* GlitchFx: no timer callback runs after this time, in ms
MaxChanges == 1     \* GlitchFx: most changes of the trigger prop in a behaviour

(***************************************************************************)
(* Characters.                                                             *)
(***************************************************************************)
Lowers == <<"a","b","c","d","e","f","g","h","i","j","k","l","m",
            "n","o","p","q","r","s","t","u","v","w","x","y","z">>
Uppers == <<"A","B","C","D","E","F","G","H","I","J","K","L","M",
            "N","O","P","Q","R","S","T","U","V","W","X","Y","Z">>
Digits == <<"0","1","2","3","4","5","6","7","8","9">>

Range(f) == {f[i] : i \in DOMAIN f}

\* \w of a JavaScript regular expression without the u flag: [A-Za-z0-9_]
WordChars == Range(Lowers) \cup Range(Uppers) \cup Range(Digits) \cup {"_"}
\* \s, restricted to the whitespace characters the model uses
SpaceChars == {" ", "\t", "\n"}
PunctChars == {"&", "-", "!", "#", "/", ".", ":", "?"}
AllChars == WordChars \cup SpaceChars \cup PunctChars

(***************************************************************************)
(* ReactNode values.                                                       *)
(***************************************************************************)
Str(t) == [kind |-> "string", val |-> t]
Elem(c) == [kind |-> "element", children |-> c]
Arr(xs) == [kind |-> "array", items |-> xs]
Num(n) == [kind |-> "number", num |-> n]
Bool(b) == [kind |-> "boolean", bool |-> b]
Undef == [kind |-> "undefined"]
Null == [kind |-> "null"]

(***************************************************************************)
(* String primitives of the JavaScript runtime used by slugify.            *)
(***************************************************************************)
LowerChar(c) ==
    IF c \in Range(Uppers)
    THEN Lowers[CHOOSE i \in DOMAIN Uppers : Uppers[i] = c]
    ELSE c

\* String.prototype.toLowerCase
toLowerCase(s) == [i \in 1..Len(s) |-> LowerChar(s[i])]

\* length of the longest prefix of s made of characters of class
RECURSIVE RunLen(_, _)
RunLen(s, class) ==
    IF s = <<>> \/ Head(s) \notin class THEN 0
    ELSE 1 + RunLen(Tail(s), class)

\* s.replace(/[class]{min,}/g, rep): every maximal run of at least min
\* characters of class becomes rep; shorter runs are kept
RECURSIVE ReplaceRuns(_, _, _, _)
ReplaceRuns(s, class, min, rep) ==
    IF s = <<>> THEN <<>>
    ELSE LET n == RunLen(s, class) IN
         IF n = 0 THEN <<Head(s)>> \o ReplaceRuns(Tail(s), class, min, rep)
         ELSE (IF n >= min THEN rep ELSE SubSeq(s, 1, n))
              \o ReplaceRuns(SubSeq(s, n + 1, Len(s)), class, min, rep)

\* s.replace(/c/g, rep): every occurrence of the character c becomes rep
RECURSIVE ReplaceEach(_, _, _)
ReplaceEach(s, c, rep) ==
    IF s = <<>> THEN <<>>
    ELSE (IF Head(s) = c THEN rep ELSE <<Head(s)>>)
         \o ReplaceEach(Tail(s), c, rep)

\* decimal digits of a natural number
RECURSIVE ToDecimal(_)
ToDecimal(n) ==
    IF n < 10 THEN <<Digits[n + 1]>>
    ELSE ToDecimal(n \div 10) \o <<Digits[(n % 10) + 1]>>

\* String(v) for a value that is neither a string, an element nor an array
String(v) ==
    CASE v.kind = "undefined" -> <<"u","n","d","e","f","i","n","e","d">>
      [] v.kind = "null" -> <<"n","u","l","l">>
      [] v.kind = "boolean" ->
            IF v.bool THEN <<"t","r","u","e">> ELSE <<"f","a","l","s","e">>
      [] v.kind = "number" -> ToDecimal(v.num)

(***************************************************************************)
(* extractTextFromElement and slugify.                                     *)
(***************************************************************************)
RECURSIVE extractTextFromElement(_)
RECURSIVE JoinItems(_)

\* xs.map(item => string ? item : element ? extractTextFromElement(item) : "")
\*   .join("")
JoinItems(xs) ==
    IF xs = <<>> THEN <<>>
    ELSE LET item == Head(xs) IN
         (IF item.kind = "string" THEN item.val
          ELSE IF item.kind = "element" THEN extractTextFromElement(item)
          ELSE <<>>)
         \o JoinItems(Tail(xs))

extractTextFromElement(element) ==
    LET children == element.children IN
    IF children.kind = "string" THEN children.val
    ELSE IF children.kind = "array" THEN JoinItems(children.items)
    ELSE <<>>

\* the first half of slugify: ReactNode to string
ToText(str) ==
    IF str.kind = "string" THEN str.val
    ELSE IF str.kind = "element" THEN extractTextFromElement(str)
    ELSE IF str.kind = "array" THEN JoinItems(str.items)
    ELSE String(str)

\* Normalize with the hyphen runs collapsed before "&" is replaced
NormalizeCollapseEarly(text) ==
    LET lowered == toLowerCase(text)
        spaced == ReplaceRuns(lowered, SpaceChars, 1, <<"-">>)
        collapsed == ReplaceRuns(spaced, {"-"}, 2, <<"-">>)
        anded == ReplaceEach(collapsed, "&", <<"-","a","n","d","-">>)
    IN  ReplaceRuns(anded, AllChars \ (WordChars \cup {"-"}), 1, <<>>)

\* Normalize with the non-word characters stripped before "&" is replaced
NormalizeStripBeforeAnd(text) ==
    LET lowered == toLowerCase(text)
        spaced == ReplaceRuns(lowered, SpaceChars, 1, <<"-">>)
        stripped == ReplaceRuns(spaced, AllChars \ (WordChars \cup {"-"}), 1, <<>>)
        anded == ReplaceEach(stripped, "&", <<"-","a","n","d","-">>)
    IN  ReplaceRuns(anded, {"-"}, 2, <<"-">>)

\* Normalize without the toLowerCase call
NormalizeNoLower(text) ==
    LET spaced == ReplaceRuns(text, SpaceChars, 1, <<"-">>)
        anded == ReplaceEach(spaced, "&", <<"-","a","n","d","-">>)
        stripped == ReplaceRuns(anded, AllChars \ (WordChars \cup {"-"}), 1, <<>>)
    IN  ReplaceRuns(stripped, {"-"}, 2, <<"-">>)

\* the second half of slugify: the chain of replace calls
Normalize(text) ==
    LET lowered == toLowerCase(text)
        spaced == ReplaceRuns(lowered, SpaceChars, 1, <<"-">>)
        anded == ReplaceEach(spaced, "&", <<"-","a","n","d","-">>)
        stripped == ReplaceRuns(anded, AllChars \ (WordChars \cup {"-"}), 1, <<>>)
    IN  ReplaceRuns(stripped, {"-"}, 2, <<"-">>)

slugify(str) == Normalize(ToText(str))

(***************************************************************************)
(* Inputs of the slug deriver.                                             *)
(***************************************************************************)
SlugChars == {"A", "b", " ", "&", "-", "!", "_"}

RECURSIVE TextsUpTo(_)
TextsUpTo(n) ==
    IF n = 0 THEN {<<>>}
    ELSE LET T == TextsUpTo(n - 1) IN
         T \cup {Append(t, c) : t \in T, c \in SlugChars}

HelloWorld == <<"H","e","l","l","o"," ","W","o","r","l","d","!">>
AAndB == <<"A"," ","&"," ","B">>
MultipleSpaces == <<" "," ","M","u","l","t","i","p","l","e"," "," "," ",
                    "S","p","a","c","e","s"," "," ">>
Examples == {HelloWorld, AAndB, MultipleSpaces, <<" ","\t","\n">>}

PlainTexts == TextsUpTo(MaxLen) \cup Examples

TreeLeaves ==
    {Str(<<"A"," ">>), Str(<<"b">>), Str(<<>>), Undef, Null, Num(7), Bool(TRUE)}
ArrHeads == {Str(<<"c","!">>), Elem(Str(<<"&">>))}

RECURSIVE Trees(_)
Trees(d) ==
    IF d = 0 THEN TreeLeaves
    ELSE LET T == Trees(d - 1) IN
         T \cup {Elem(c) : c \in T}
           \cup {Arr(<<a, c>>) : a \in ArrHeads, c \in T}
           \cup {Arr(<<c, a>>) : a \in ArrHeads, c \in T}

HeadingContents == {Str(t) : t \in PlainTexts} \cup Trees(MaxDepth)

\* an object without entries: {}
NoEntries == [k \in {} |-> ""]

NotDone == [done |-> FALSE, val |-> <<>>]
Done(v) == [done |-> TRUE, val |-> v]

(***************************************************************************)
(* The default components table.  A renderer is named by a string; the     *)
(* renderers of the default table are private to the module, so a caller's *)
(* renderer is never one of them.                                          *)
(***************************************************************************)
components ==
    [p |-> "createParagraph",
     h1 |-> "createHeading(h1)",
     h2 |-> "createHeading(h2)",
     h3 |-> "createHeading(h3)",
     h4 |-> "createHeading(h4)",
     h5 |-> "createHeading(h5)",
     h6 |-> "createHeading(h6)",
     img |-> "createImage",
     a |-> "CustomLink",
     code |-> "createInlineCode",
     pre |-> "createCodeBlock",
     Heading |-> "Heading",
     Text |-> "Text",
     CodeBlock |-> "CodeBlock",
     InlineCode |-> "InlineCode",
     Accordion |-> "dynamic(Accordion)",
     AccordionGroup |-> "dynamic(AccordionGroup)",
     Table |-> "dynamic(Table)",
     Feedback |-> "dynamic(Feedback)",
     Button |-> "dynamic(Button)",
     Card |-> "dynamic(Card)",
     Grid |-> "dynamic(Grid)",
     Row |-> "dynamic(Row)",
     Column |-> "dynamic(Column)",
     Icon |-> "dynamic(Icon)",
     SmartImage |-> "dynamic(SmartImage)",
     SmartLink |-> "dynamic(SmartLink)"]

\* the entries built with dynamic(() => import("@/once-ui/components")...)
DynamicTags ==
    {"Accordion", "AccordionGroup", "Table", "Feedback", "Button", "Card",
     "Grid", "Row", "Column", "Icon", "SmartImage", "SmartLink"}

(***************************************************************************)
(* Specification of the slug deriver: a call of slugify on some heading    *)
(* content, after which the returned slug may be passed in again as text.  *)
(***************************************************************************)
SlugIdle ==
    /\ arg = Undef
    /\ ret = NotDone
    /\ fed = NotDone
MdxIdle ==
    /\ given = [present |-> FALSE, map |-> NoEntries]
    /\ table = [set |-> FALSE, map |-> NoEntries]
    /\ tag = [set |-> FALSE, name |-> ""]
    /\ used = [set |-> FALSE, val |-> ""]
    /\ defaults = components
NodeIdle ==
    /\ node = [tag |-> "none"]
    /\ out = [kind |-> "none"]
    /\ log = <<>>
DocIdle ==
    /\ doc = <<>>
    /\ outs = <<>>
    /\ aborted = FALSE
AuthIdle ==
    /\ request = [present |-> FALSE, cookies |-> <<>>]
    /\ response = [sent |-> FALSE, status |-> 0, authenticated |-> FALSE]
ProjIdle ==
    /\ posts = <<>>
    /\ range = <<>>
    /\ displayed = NotDone
DynIdle ==
    /\ barrel = "unloaded"
    /\ registry = "none"
    /\ wrappers = [t \in DynamicTags |-> [status |-> "idle", calls |-> 0]]
IdleSlot ==
    [phase |-> "idle",
     given |-> [present |-> FALSE, map |-> NoEntries],
     table |-> NoEntries,
     tag |-> "",
     used |-> ""]
Slots == {1, 2}
ParIdle ==
    /\ slots = [d \in Slots |-> IdleSlot]
    /\ past = {}
NumIdle ==
    /\ numProps = [value |-> Undef, min |-> Undef, max |-> Undef,
                   step |-> Undef, padStart |-> Undef]
    /\ localValue = <<>>
    /\ reported = <<>>
    /\ pressed = [op |-> "none", before |-> <<>>, calls |-> 0]
FxIdle ==
    /\ fxProps = [trigger |-> "instant", continuous |-> FALSE, interval |-> 0]
    /\ mounted = FALSE
    /\ isGlitching = FALSE
    /\ glitchInterval = [active |-> FALSE, due |-> 0]
    /\ timeouts = {}
    /\ now = 0
    /\ lastTick = -1
    /\ lastMouse = "none"
    /\ propChanges = 0
WidgetsIdle == NumIdle /\ FxIdle

notSlugVars == <<mdxVars, defaults, nodeVars, log, docVars, authVars, projVars, dynVars, parVars, numVars, fxVars>>
notMdxVars == <<slugVars, nodeVars, log, docVars, authVars, projVars, dynVars, parVars, numVars, fxVars>>
notNodeVars == <<slugVars, mdxVars, defaults, docVars, authVars, projVars, dynVars, parVars, numVars, fxVars>>

InitSlug ==
    /\ arg \in HeadingContents
    /\ ret = NotDone
    /\ fed = NotDone
    /\ MdxIdle
    /\ NodeIdle
    /\ DocIdle
    /\ AuthIdle
    /\ ProjIdle
    /\ DynIdle
    /\ ParIdle
    /\ WidgetsIdle

CallSlugify ==
    /\ ~ret.done
    /\ ret' = Done(slugify(arg))
    /\ UNCHANGED <<arg, fed, notSlugVars>>

FeedBack ==
    /\ ret.done
    /\ ~fed.done
    /\ fed' = ret
    /\ arg' = Str(ret.val)
    /\ ret' = NotDone
    /\ UNCHANGED notSlugVars

NextSlug == CallSlugify \/ FeedBack

SpecSlug == InitSlug /\ [][NextSlug]_vars

(***************************************************************************)
(* Properties of the slug deriver, checked under SpecSlug.                 *)
(***************************************************************************)
AAndBSlug == <<"a","-","a","n","d","-","b">>
HelloWorldSlug == <<"h","e","l","l","o","-","w","o","r","l","d">>
MultipleSpacesSlug ==
    <<"m","u","l","t","i","p","l","e","-","s","p","a","c","e","s">>

\* C3: slugify(slugify(x)) = slugify(x): once a slug has been passed back in
\* as plain text, the slug returned for it is the slug that was passed in.
C3_Idempotent == (fed.done /\ ret.done) => ret.val = fed.val

\* a slug that differs from the text it came from went round unchanged
C3_Witness ==
    /\ fed.done
    /\ ret.done
    /\ fed.val = <<"-","a","n","d","-","a","n","d","-">>
    /\ ret.val = fed.val

\* C4: slugify("  Multiple   Spaces  ") returns "multiple-spaces", with no
\* leading or trailing hyphen.
C4_MultipleSpaces ==
    (ret.done /\ arg = Str(MultipleSpaces)) => ret.val = MultipleSpacesSlug

\* heading content with nothing in it: no children, or only whitespace
IsBlank(content) ==
    \/ content.kind = "undefined"
    \/ /\ content.kind = "string"
       /\ \A i \in 1..Len(content.val) : content.val[i] \in SpaceChars

\* C5: empty or whitespace-only heading content (no children, "", or only
\* whitespace) yields the empty slug.
C5_BlankGivesEmpty == (ret.done /\ IsBlank(arg)) => ret.val = <<>>

\* all string leaves of heading content in document order, to any depth
RECURSIVE LeafText(_)
RECURSIVE LeafTextOfItems(_)
LeafTextOfItems(xs) ==
    IF xs = <<>> THEN <<>> ELSE LeafText(Head(xs)) \o LeafTextOfItems(Tail(xs))
LeafText(content) ==
    CASE content.kind = "string" -> content.val
      [] content.kind = "element" -> LeafText(content.children)
      [] content.kind = "array" -> LeafTextOfItems(content.items)
      [] OTHER -> <<>>

\* C6: for content that is a string, a markup node or a sequence of them,
\* nested to any depth, the text slugify normalizes is the concatenation of
\* all string leaves in document order.
C6_FlattensAllLeaves ==
    (ret.done /\ arg.kind \in {"string", "element", "array"})
        => ret.val = Normalize(LeafText(arg))

\* the five steps of the documented pipeline, each stated position by position
C7_Lower(s) ==
    [i \in 1..Len(s) |->
        IF \E j \in 1..26 : Uppers[j] = s[i]
        THEN Lowers[CHOOSE j \in 1..26 : Uppers[j] = s[i]]
        ELSE s[i]]
RECURSIVE C7_Spaces(_, _)
C7_Spaces(s, i) ==
    IF i > Len(s) THEN <<>>
    ELSE (IF s[i] \notin SpaceChars THEN <<s[i]>>
          ELSE IF i > 1 /\ s[i - 1] \in SpaceChars THEN <<>>
          ELSE <<"-">>)
         \o C7_Spaces(s, i + 1)
RECURSIVE C7_Amp(_, _)
C7_Amp(s, i) ==
    IF i > Len(s) THEN <<>>
    ELSE (IF s[i] = "&" THEN <<"-","a","n","d","-">> ELSE <<s[i]>>)
         \o C7_Amp(s, i + 1)
C7_IsSlugChar(c) == c \in WordChars \/ c = "-"
C7_Strip(s) == SelectSeq(s, C7_IsSlugChar)
RECURSIVE C7_Collapse(_, _)
C7_Collapse(s, i) ==
    IF i > Len(s) THEN <<>>
    ELSE (IF s[i] = "-" /\ i > 1 /\ s[i - 1] = "-" THEN <<>> ELSE <<s[i]>>)
         \o C7_Collapse(s, i + 1)
C7_Pipeline(s) ==
    C7_Collapse(C7_Strip(C7_Amp(C7_Spaces(C7_Lower(s), 1), 1)), 1)

\* C7: for plain text, slugify is: lowercase, each whitespace run to one
\* hyphen, each & to -and-, drop everything but word characters and hyphens,
\* collapse hyphen runs; "Hello World!" gives "hello-world" and "A & B" gives
\* "a-and-b".
C7_PipelineInOrder ==
    (ret.done /\ arg.kind = "string") =>
        /\ ret.val = C7_Pipeline(arg.val)
        /\ arg.val = HelloWorld => ret.val = HelloWorldSlug
        /\ arg.val = AAndB => ret.val = AAndBSlug

C7_Witness == ret.done /\ arg = Str(AAndB) /\ ret.val = AAndBSlug

UrlSafe(s) ==
    /\ \A i \in 1..Len(s) :
          s[i] \in Range(Lowers) \cup Range(Digits) \cup {"_", "-"}
    /\ \A i \in 1..(Len(s) - 1) : ~(s[i] = "-" /\ s[i + 1] = "-")

\* C8: every slug slugify returns, for any heading content, is lowercase,
\* holds only word characters and hyphens, and has no two hyphens in a row.
C8_UrlSafe == ret.done => UrlSafe(ret.val)

\* mixed content with an upper-case letter, a space and "&" was slugged
C8_Witness ==
    /\ ret.done
    /\ arg = Arr(<<Str(<<"A"," ">>), Elem(Str(<<"&">>))>>)
    /\ ret.val = <<"a","-","a","n","d","-">>

\* object spread { ...a, ...b }: the keys of both, b's value where b has the key
Spread(a, b) ==
    [k \in DOMAIN a \cup DOMAIN b |-> IF k \in DOMAIN b THEN b[k] ELSE a[k]]

\* the merge with the spreads in the other order: defaults on top
MergedDefaultsOnTop(prop) ==
    Spread(IF prop.present THEN prop.map ELSE NoEntries, defaults)

\* the merge as `props.components || components`: overrides instead of defaults
MergedOverridesOnly(prop) ==
    IF prop.present THEN prop.map ELSE defaults

\* the components prop built by CustomMDX:
\* { ...components, ...(props.components || {}) }
MergedComponents(prop) ==
    Spread(defaults, IF prop.present THEN prop.map ELSE NoEntries)

\* CustomMDX writing the overrides into the module-level object:
\* Object.assign(components, props.components)
DefaultsAssigned(prop) ==
    Spread(defaults, IF prop.present THEN prop.map ELSE NoEntries)

\* CustomMDX keeping the caller's table as the module-level one:
\* components = props.components || components
DefaultsReplaced(prop) ==
    IF prop.present THEN prop.map ELSE defaults

\* the module-level `components` object after a CustomMDX call: the spread
\* copies its entries into a new object and nothing assigns to it
DefaultsAfter(prop) == defaults

\* what MDXRemote renders a tag with: the table's entry, else the tag itself
Lookup(map, name) ==
    IF name \in DOMAIN map THEN map[name] ELSE "intrinsic"

(***************************************************************************)
(* Inputs of CustomMDX: the components prop is absent, or an override map  *)
(* of at most MaxOverrides entries.  A caller may override a default name  *)
(* or add a tag of its own, and may pass undefined as a value.             *)
(***************************************************************************)
CallerTags == {"Callout"}
OverrideNames == DOMAIN components \cup CallerTags
OverrideValues == {"callerRenderer", "undefined"}
RenderedTags == OverrideNames \cup {"div"}

\* the subsets of S of at most n elements
RECURSIVE SubsetsUpTo(_, _)
SubsetsUpTo(S, n) ==
    IF n = 0 THEN {{}}
    ELSE LET P == SubsetsUpTo(S, n - 1) IN
         P \cup {q \cup {x} : q \in P, x \in S}

OverrideMaps ==
    UNION {[names -> OverrideValues] :
             names \in SubsetsUpTo(OverrideNames, MaxOverrides)}

ComponentsProps ==
    {[present |-> FALSE, map |-> NoEntries]}
        \cup {[present |-> TRUE, map |-> m] : m \in OverrideMaps}

(***************************************************************************)
(* Specification of the content renderer: one call of CustomMDX, then      *)
(* MDXRemote renders a tag of the content with the table it was handed.    *)
(***************************************************************************)
InitMDX ==
    /\ given \in ComponentsProps
    /\ table = [set |-> FALSE, map |-> NoEntries]
    /\ tag = [set |-> FALSE, name |-> ""]
    /\ used = [set |-> FALSE, val |-> ""]
    /\ defaults = components
    /\ SlugIdle
    /\ NodeIdle
    /\ DocIdle
    /\ AuthIdle
    /\ ProjIdle
    /\ DynIdle
    /\ ParIdle
    /\ WidgetsIdle

CustomMDX ==
    /\ ~table.set
    /\ table' = [set |-> TRUE, map |-> MergedComponents(given)]
    /\ defaults' = DefaultsAfter(given)
    /\ UNCHANGED <<given, tag, used, notMdxVars>>

RenderTag(name) ==
    /\ table.set
    /\ ~tag.set
    /\ tag' = [set |-> TRUE, name |-> name]
    /\ used' = [set |-> TRUE, val |-> Lookup(table.map, name)]
    /\ UNCHANGED <<given, table, defaults, notMdxVars>>

NextMDX == CustomMDX \/ \E name \in RenderedTags : RenderTag(name)

SpecMDX == InitMDX /\ [][NextMDX]_vars

(***************************************************************************)
(* Properties of the content renderer, checked under SpecMDX.              *)
(***************************************************************************)
\* C1: every name present in the override map passed as `components` is
\* rendered with the override's renderer, never with the default one.
C1_OverrideWins ==
    /\ table.set =>
          \A k \in DOMAIN given.map : table.map[k] = given.map[k]
    /\ (used.set /\ tag.name \in DOMAIN given.map) =>
          /\ used.val = given.map[tag.name]
          /\ tag.name \in DOMAIN components => used.val # components[tag.name]

\* an overridden default heading was rendered
C1_Witness ==
    /\ used.set
    /\ tag.name = "h1"
    /\ "h1" \in DOMAIN given.map
    /\ used.val = "callerRenderer"

\* C2: the table handed to the parser is the default table with the
\* overrides on top: its names are those of both, every name absent from
\* the override map keeps its default renderer, and a name has one renderer.
C2_DefaultsKept ==
    /\ table.set =>
          /\ DOMAIN table.map = DOMAIN components \cup DOMAIN given.map
          /\ \A k \in DOMAIN components \ DOMAIN given.map :
                table.map[k] = components[k]
    /\ (used.set /\ tag.name \in DOMAIN components \ DOMAIN given.map) =>
          used.val = components[tag.name]

\* with h1 overridden, a paragraph was still rendered by the default
C2_Witness ==
    /\ used.set
    /\ "h1" \in DOMAIN given.map
    /\ tag.name = "p"
    /\ used.val = "createParagraph"

(***************************************************************************)
(* The default node transformers.  A node is [tag, children, rest, ...]:   *)
(* `rest` holds the props the transformer does not destructure.  A         *)
(* transformer returns an element [kind, type, props, children], or throws.*)
(***************************************************************************)
Element(type, props, children) ==
    [kind |-> "element", type |-> type, props |-> props, children |-> children]
Threw == [kind |-> "threw"]

\* String.prototype.startsWith, for a one-character search string
StartsWith(s, c) == Len(s) > 0 /\ s[1] = c

\* String.prototype.includes, for a one-character search string
Includes(s, c) == \E i \in 1..Len(s) : s[i] = c

\* CustomLink testing href.includes where the code tests href.startsWith
CustomLinkIncludes(n) ==
    IF n.href.kind # "string" THEN Threw
    ELSE IF Includes(n.href.val, "/")
    THEN Element("SmartLink", Spread([href |-> n.href.val], n.rest), n.children)
    ELSE IF Includes(n.href.val, "#")
    THEN Element("a", Spread([href |-> n.href.val], n.rest), n.children)
    ELSE Element("a",
                 Spread([href |-> n.href.val,
                         target |-> "_blank",
                         rel |-> "noopener noreferrer"], n.rest),
                 n.children)

\* CustomLink({ href, children, ...props }); href.startsWith throws a
\* TypeError when href is undefined
CustomLink(n) ==
    IF n.href.kind # "string" THEN Threw
    ELSE IF StartsWith(n.href.val, "/")
    THEN Element("SmartLink", Spread([href |-> n.href.val], n.rest), n.children)
    ELSE IF StartsWith(n.href.val, "#")
    THEN Element("a", Spread([href |-> n.href.val], n.rest), n.children)
    ELSE Element("a",
                 Spread([href |-> n.href.val,
                         target |-> "_blank",
                         rel |-> "noopener noreferrer"], n.rest),
                 n.children)

\* CustomHeading with {...props} written before as= and id=
CustomHeadingPropsFirst(as, n) ==
    LET slug == slugify(n.children) IN
    Element("HeadingLink",
            Spread(n.rest,
                   [style |-> "marginTop:24;marginBottom:12",
                    as |-> as,
                    id |-> slug]),
            n.children)

\* the component createHeading(as) returns, applied to { children, ...props }
CustomHeading(as, n) ==
    LET slug == slugify(n.children) IN
    Element("HeadingLink",
            Spread([style |-> "marginTop:24;marginBottom:12",
                    as |-> as,
                    id |-> slug], n.rest),
            n.children)

NullOut == [kind |-> "null"]

\* !src: undefined, null and "" are falsy
Falsy(v) == v.kind # "string" \/ v.val = <<>>

ImageErrorMessage == "SmartImage requires a valid 'src' property."

\* createImage throwing where the code logs and returns null
createImageThrows(n) ==
    IF Falsy(n.src) THEN Threw
    ELSE Element("SmartImage",
                 Spread([marginTop |-> "8", marginBottom |-> "16",
                         enlarge |-> "true", radius |-> "m",
                         aspectRatio |-> "16 / 9",
                         border |-> "neutral-alpha-medium",
                         sizes |-> "(max-width: 960px) 100vw, 960px",
                         alt |-> n.alt, src |-> n.src.val], n.rest),
                 Undef)

\* createImage({ alt, src, ...props }): the element it returns
createImage(n) ==
    IF Falsy(n.src) THEN NullOut
    ELSE Element("SmartImage",
                 Spread([marginTop |-> "8", marginBottom |-> "16",
                         enlarge |-> "true", radius |-> "m",
                         aspectRatio |-> "16 / 9",
                         border |-> "neutral-alpha-medium",
                         sizes |-> "(max-width: 960px) 100vw, 960px",
                         alt |-> n.alt, src |-> n.src.val], n.rest),
                 Undef)

\* createParagraph({ children }): further props are dropped
createParagraph(n) ==
    Element("Text",
            [style |-> "lineHeight:175%", variant |-> "body-default-m",
             onBackground |-> "neutral-medium",
             marginTop |-> "8", marginBottom |-> "12"],
            n.children)

\* createInlineCode({ children })
createInlineCode(n) == Element("InlineCode", NoEntries, n.children)

\* the index of the first occurrence of pat in s, 0 when there is none
FirstIndexOf(s, pat) ==
    LET hits == {i \in 1..(Len(s) + 1 - Len(pat)) :
                    SubSeq(s, i, i + Len(pat) - 1) = pat}
    IN  IF hits = {} THEN 0 ELSE CHOOSE i \in hits : \A j \in hits : i <= j

\* s.replace(pat, rep) with a string pattern: the first occurrence only
ReplaceFirst(s, pat, rep) ==
    LET i == FirstIndexOf(s, pat) IN
    IF i = 0 THEN s
    ELSE SubSeq(s, 1, i - 1) \o rep \o SubSeq(s, i + Len(pat), Len(s))

UpperChar(c) ==
    IF c \in Range(Lowers)
    THEN Uppers[CHOOSE i \in DOMAIN Lowers : Lowers[i] = c]
    ELSE c

\* language.charAt(0).toUpperCase() + language.slice(1)
Capitalize(s) ==
    IF s = <<>> THEN <<>> ELSE <<UpperChar(s[1])>> \o SubSeq(s, 2, Len(s))

\* an element with a className prop, as MDX builds for a fenced code block
CodeElem(cls, code) ==
    [kind |-> "element", className |-> cls, children |-> code]

\* props.children?.props?.className is truthy
HasClassName(c) ==
    /\ c.kind = "element"
    /\ "className" \in DOMAIN c
    /\ ~Falsy(c.className)

LanguagePrefix == <<"l","a","n","g","u","a","g","e","-">>

\* the code instance with the label left as the language name
CodeInstancePlainLabel(c) ==
    LET language == ReplaceFirst(c.className.val, LanguagePrefix, <<>>) IN
    [code |-> c.children, language |-> language, label |-> language]

\* the single code instance createCodeBlock builds from props.children.props
CodeInstance(c) ==
    LET language == ReplaceFirst(c.className.val, LanguagePrefix, <<>>) IN
    [code |-> c.children, language |-> language, label |-> Capitalize(language)]

\* createCodeBlock(props); without a class name the <pre> is passed through
createCodeBlock(n) ==
    IF HasClassName(n.children)
    THEN Element("CodeBlock",
                 [marginTop |-> "8", marginBottom |-> "16",
                  codeInstances |-> <<CodeInstance(n.children)>>,
                  copyButton |-> TRUE],
                 Undef)
    ELSE Element("pre", n.rest, n.children)

Levels == {"h1", "h2", "h3", "h4", "h5", "h6"}

\* the transformer entries of the default components table
DefaultTransformer(n) ==
    CASE n.tag = "h1" -> CustomHeading("h1", n)
      [] n.tag = "h2" -> CustomHeading("h2", n)
      [] n.tag = "h3" -> CustomHeading("h3", n)
      [] n.tag = "h4" -> CustomHeading("h4", n)
      [] n.tag = "h5" -> CustomHeading("h5", n)
      [] n.tag = "h6" -> CustomHeading("h6", n)
      [] n.tag = "a" -> CustomLink(n)
      [] n.tag = "p" -> createParagraph(n)
      [] n.tag = "img" -> createImage(n)
      [] n.tag = "code" -> createInlineCode(n)
      [] n.tag = "pre" -> createCodeBlock(n)

\* what the transformer of a node writes with console.error
ConsoleErrors(n) ==
    IF n.tag = "img" /\ Falsy(n.src) THEN <<ImageErrorMessage>> ELSE <<>>

(***************************************************************************)
(* Inputs of the transformers.                                             *)
(***************************************************************************)
Restrict(f, d) == [k \in d |-> f[k]]
PartsOf(f) == {Restrict(f, d) : d \in SUBSET DOMAIN f}

\* further props a heading node may carry
HeadingAttrs == [id |-> <<"t","o","p">>, as |-> "h6", className |-> "title"]
\* further props a link node may carry
LinkAttrs == [target |-> "_self", rel |-> "nofollow", title |-> "docs"]

HeadingNodes ==
    {[tag |-> l, children |-> c, rest |-> r] :
        l \in Levels,
        c \in Trees(MaxDepth) \cup {Str(HelloWorld), Str(MultipleSpaces)},
        r \in PartsOf(HeadingAttrs)}

HrefChars == {"/", "#", "h", ":"}
RECURSIVE HrefsUpTo(_)
HrefsUpTo(n) ==
    IF n = 0 THEN {<<>>}
    ELSE LET H == HrefsUpTo(n - 1) IN
         H \cup {Append(h, c) : h \in H, c \in HrefChars}

LinkNodes ==
    {[tag |-> "a", href |-> h, children |-> Str(<<"b">>), rest |-> r] :
        h \in {Str(t) : t \in HrefsUpTo(MaxHref)} \cup {Undef},
        r \in PartsOf(LinkAttrs)}

\* further props an image node may carry
ImageAttrs == [radius |-> "l", title |-> "figure"]
ImageSources == {Undef, Null, Str(<<>>), Str(<<"/","h">>), Str(<<"h",":">>)}

ImageNodes ==
    {[tag |-> "img", src |-> v, alt |-> a, rest |-> r] :
        v \in ImageSources, a \in {Undef, Str(<<"b">>)}, r \in PartsOf(ImageAttrs)}

LangChars == {"j", "S", "-", "1"}
RECURSIVE LangsUpTo(_)
LangsUpTo(n) ==
    IF n = 0 THEN {<<>>}
    ELSE LET L == LangsUpTo(n - 1) IN
         L \cup {Append(l, c) : l \in L, c \in LangChars}

Python == <<"p","y","t","h","o","n">>
Languages == LangsUpTo(MaxLang) \cup {Python, LanguagePrefix \o <<"j">>}

\* class annotations: the prefix and a language, and others
ClassNames ==
    {LanguagePrefix \o l : l \in Languages}
        \cup {<<>>, <<"h","l","j","s">>, <<"x"," ">> \o LanguagePrefix \o <<"j">>}

PreChildren ==
    {Undef, Str(<<"b">>), Elem(Str(<<"b">>)), CodeElem(Undef, Str(<<"b">>))}
        \cup {CodeElem(Str(c), Str(<<"b">>)) : c \in ClassNames}

PreNodes ==
    {[tag |-> "pre", children |-> c, rest |-> r] :
        c \in PreChildren, r \in PartsOf([className |-> "wide"])}

TextNodes ==
    {[tag |-> t, children |-> Str(<<"b">>), rest |-> NoEntries] : t \in {"p", "code"}}

(***************************************************************************)
(* Specification of the transformers: MDXRemote calls the default          *)
(* transformer of a node of the content with the node's props.             *)
(***************************************************************************)
InitNodes ==
    /\ node \in HeadingNodes \cup LinkNodes \cup ImageNodes \cup PreNodes \cup TextNodes
    /\ out = [kind |-> "none"]
    /\ log = <<>>
    /\ SlugIdle
    /\ MdxIdle
    /\ DocIdle
    /\ AuthIdle
    /\ ProjIdle
    /\ DynIdle
    /\ ParIdle
    /\ WidgetsIdle

RenderNode ==
    /\ out.kind = "none"
    /\ out' = DefaultTransformer(node)
    /\ log' = log \o ConsoleErrors(node)
    /\ UNCHANGED <<node, notNodeVars>>

NextNodes == RenderNode

SpecNodes == InitNodes /\ [][NextNodes]_vars

(***************************************************************************)
(* Properties of the transformers, checked under SpecNodes.                *)
(***************************************************************************)
IsHeading == node.tag \in Levels /\ out.kind = "element"
IsLink == node.tag = "a" /\ out.kind = "element"

\* C9 as stated: a heading of level h1..h6 is rendered at that level with
\* id = slugify(children), whatever other props the node carries.
C9_IdAlwaysSlug ==
    IsHeading =>
        /\ out.type = "HeadingLink"
        /\ out.props.as = node.tag
        /\ out.props.id = slugify(node.children)

\* C9 amended: a heading of level h1..h6 is rendered at that level with
\* id = slugify(children), unless the node's other props carry an `as` or an
\* `id` of their own: those are spread last and replace the level or the id.
C9_IdSlugUnlessGiven ==
    IsHeading =>
        /\ out.type = "HeadingLink"
        /\ out.children = node.children
        /\ out.props.as =
              (IF "as" \in DOMAIN node.rest THEN node.rest.as ELSE node.tag)
        /\ out.props.id =
              (IF "id" \in DOMAIN node.rest THEN node.rest.id
               ELSE slugify(node.children))

\* a level-3 heading without an id of its own got the slug of its text
C9_Witness ==
    /\ IsHeading
    /\ node.tag = "h3"
    /\ node.children = Str(HelloWorld)
    /\ DOMAIN node.rest = {"className"}
    /\ out.props.as = "h3"
    /\ out.props.id = HelloWorldSlug

\* the value of attribute k on the rendered element, "" when it has none
AttrOf(k) == IF k \in DOMAIN out.props THEN out.props[k] ELSE ""

C13_LanguageAndLabel ==
    (node.tag = "pre" /\ out.kind = "element") =>
        \A l \in Languages :
            (/\ node.children.kind = "element"
             /\ "className" \in DOMAIN node.children
             /\ node.children.className = Str(LanguagePrefix \o l)) =>
                /\ out.type = "CodeBlock"
                /\ out.props.copyButton = TRUE
                /\ Len(out.props.codeInstances) = 1
                /\ out.props.codeInstances[1].code = node.children.children
                /\ out.props.codeInstances[1].language = l
                /\ out.props.codeInstances[1].label =
                      [i \in 1..Len(l) |->
                          IF i = 1 /\ \E j \in 1..26 : Lowers[j] = l[i]
                          THEN Uppers[CHOOSE j \in 1..26 : Lowers[j] = l[i]]
                          ELSE l[i]]
                /\ l = Python =>
                      out.props.codeInstances[1].label = <<"P","y","t","h","o","n">>

\* the language-python block was rendered
C13_Witness ==
    /\ node.tag = "pre"
    /\ out.kind = "element"
    /\ node.children = CodeElem(Str(LanguagePrefix \o Python), Str(<<"b">>))
    /\ out.type = "CodeBlock"
    /\ out.props.codeInstances[1].language = Python
    /\ out.props.codeInstances[1].label = <<"P","y","t","h","o","n">>

(***************************************************************************)
(* Specification of a document render: MDXRemote renders the nodes of the  *)
(* content in order, each with its default transformer.  CustomMDX wraps   *)
(* the content in no error boundary, so an exception thrown by one         *)
(* transformer ends the render of the document.                            *)
(***************************************************************************)
DocNodes ==
    {[tag |-> "img", src |-> Undef, alt |-> Undef, rest |-> NoEntries],
     [tag |-> "img", src |-> Str(<<>>), alt |-> Str(<<"b">>), rest |-> NoEntries],
     [tag |-> "img", src |-> Str(<<"/","h">>), alt |-> Str(<<"b">>), rest |-> NoEntries],
     [tag |-> "a", href |-> Undef, children |-> Str(<<"b">>), rest |-> NoEntries],
     [tag |-> "a", href |-> Str(<<>>), children |-> Str(<<"b">>), rest |-> NoEntries],
     [tag |-> "a", href |-> Str(<<"/","h">>), children |-> Str(<<"b">>), rest |-> NoEntries],
     [tag |-> "h2", children |-> Str(<<"A"," ">>), rest |-> NoEntries],
     [tag |-> "p", children |-> Str(<<"b">>), rest |-> NoEntries]}

RECURSIVE DocsUpTo(_)
DocsUpTo(n) ==
    IF n = 0 THEN {<<>>}
    ELSE LET D == DocsUpTo(n - 1) IN
         D \cup {Append(d, x) : d \in D, x \in DocNodes}

notDocVars == <<slugVars, mdxVars, defaults, node, out, authVars, projVars, dynVars, parVars, numVars, fxVars>>

InitDoc ==
    /\ doc \in DocsUpTo(MaxDoc)
    /\ outs = <<>>
    /\ aborted = FALSE
    /\ SlugIdle
    /\ MdxIdle
    /\ NodeIdle
    /\ AuthIdle
    /\ ProjIdle
    /\ DynIdle
    /\ ParIdle
    /\ WidgetsIdle

RenderNext ==
    /\ ~aborted
    /\ Len(outs) < Len(doc)
    /\ LET n == doc[Len(outs) + 1]
           r == DefaultTransformer(n)
       IN  /\ log' = log \o ConsoleErrors(n)
           /\ IF r.kind = "threw"
              THEN aborted' = TRUE /\ outs' = outs
              ELSE aborted' = FALSE /\ outs' = Append(outs, r)
    /\ UNCHANGED <<doc, notDocVars>>

NextDoc == RenderNext

SpecDoc == InitDoc /\ [][NextDoc]_vars

(***************************************************************************)
(* Properties of a document render, checked under SpecDoc.                 *)
(***************************************************************************)
RenderedCount(P(_)) == Cardinality({i \in 1..Len(outs) : P(doc[i])})
IsBadImage(n) == n.tag = "img" /\ Falsy(n.src)
IsGoodImage(n) == n.tag = "img" /\ ~Falsy(n.src)
DocFinished == ~aborted /\ Len(outs) = Len(doc)

\* C11: an image node with an empty or absent source renders null, logs an
\* error and does not throw, so the nodes after it still render; an image
\* node with a source renders an image carrying that source.
C11_ImageWithoutSource ==
    /\ \A i \in 1..Len(outs) :
          /\ IsBadImage(doc[i]) => outs[i] = NullOut
          /\ IsGoodImage(doc[i]) =>
                /\ outs[i].kind = "element"
                /\ outs[i].type = "SmartImage"
                /\ outs[i].props.src = doc[i].src.val
    /\ Len(log) = RenderedCount(IsBadImage)
    /\ \A i \in 1..Len(log) : log[i] = ImageErrorMessage
    /\ aborted => doc[Len(outs) + 1].tag # "img"

\* an image without a source rendered null and the heading after it rendered
C11_Witness ==
    /\ DocFinished
    /\ Len(doc) = 2
    /\ doc[1].tag = "img"
    /\ doc[1].src = Undef
    /\ outs[1] = NullOut
    /\ doc[2].tag = "h2"
    /\ outs[2].kind = "element"
    /\ log = <<ImageErrorMessage>>

\* a node that lacks the attribute its kind requires
MissingRequired(n) ==
    \/ n.tag = "img" /\ Falsy(n.src)
    \/ n.tag = "a" /\ n.href.kind # "string"

\* C12: for every node kind with a required attribute (image source, link
\* target), a node missing it renders nothing and throws nothing, and all
\* other nodes of the document render.
C12_MissingAttributeDegrades ==
    /\ ~aborted
    /\ \A i \in 1..Len(outs) : MissingRequired(doc[i]) => outs[i] = NullOut

(***************************************************************************)
(* The auth route (src/src/once-ui/icons.ts, lines 81-92).  A cookie       *)
(* header is the sequence of its name=value pairs; a cookie value is the   *)
(* string cookie.parse yields for it.                                      *)
(***************************************************************************)
\* cookie.parse: an object with, for each name, the value of its first pair
parse(pairs) ==
    [n \in {pairs[i].name : i \in 1..Len(pairs)} |->
        pairs[CHOOSE i \in 1..Len(pairs) :
                 /\ pairs[i].name = n
                 /\ \A j \in 1..(i - 1) : pairs[j].name # n].value]

Response(status, authenticated) ==
    [sent |-> TRUE, status |-> status, authenticated |-> authenticated]

\* GET answering 200 whenever the authToken cookie is truthy
GETAnyToken(req) ==
    LET cookieHeader == IF req.present THEN req.cookies ELSE <<>>
        cookies == parse(cookieHeader)
    IN  IF "authToken" \in DOMAIN cookies /\ cookies.authToken # ""
        THEN Response(200, TRUE)
        ELSE Response(401, FALSE)

\* GET(request): request.headers.get("cookie") || "" is parsed and authToken
\* compared with ===; a missing cookie is undefined
GET(req) ==
    LET cookieHeader == IF req.present THEN req.cookies ELSE <<>>
        cookies == parse(cookieHeader)
    IN  IF "authToken" \in DOMAIN cookies /\ cookies.authToken = "authenticated"
        THEN Response(200, TRUE)
        ELSE Response(401, FALSE)

CookieNames == {"authToken", "authtoken", "session"}
CookieValues == {"authenticated", "Authenticated", ""}
CookiePairs == {[name |-> n, value |-> v] : n \in CookieNames, v \in CookieValues}

RECURSIVE HeadersUpTo(_)
HeadersUpTo(n) ==
    IF n = 0 THEN {<<>>}
    ELSE LET H == HeadersUpTo(n - 1) IN
         H \cup {Append(h, c) : h \in H, c \in CookiePairs}

Requests ==
    {[present |-> FALSE, cookies |-> <<>>]}
        \cup {[present |-> TRUE, cookies |-> h] : h \in HeadersUpTo(MaxCookies)}

notAuthVars == <<slugVars, mdxVars, defaults, nodeVars, log, docVars, projVars, dynVars, parVars, numVars, fxVars>>

InitAuth ==
    /\ request \in Requests
    /\ response = [sent |-> FALSE, status |-> 0, authenticated |-> FALSE]
    /\ SlugIdle
    /\ MdxIdle
    /\ NodeIdle
    /\ DocIdle
    /\ ProjIdle
    /\ DynIdle
    /\ ParIdle
    /\ WidgetsIdle

HandleGET ==
    /\ ~response.sent
    /\ response' = GET(request)
    /\ UNCHANGED <<request, notAuthVars>>

NextAuth == HandleGET

SpecAuth == InitAuth /\ [][NextAuth]_vars

\* the cookie header gives authToken the value v: its first authToken pair
\* (the one cookie.parse keeps) has that value
HeaderGives(v) ==
    /\ request.present
    /\ \E i \in 1..Len(request.cookies) :
          /\ request.cookies[i] = [name |-> "authToken", value |-> v]
          /\ \A j \in 1..Len(request.cookies) :
                request.cookies[j].name = "authToken" => j >= i

\* C14: the auth endpoint answers 200 with authenticated = true exactly when
\* the cookie header carries authToken with the value "authenticated"; for
\* any other value or a missing cookie it answers 401 with authenticated =
\* false; no other status or payload is sent.
C14_AuthStatus ==
    response.sent =>
        /\ HeaderGives("authenticated") =>
              response.status = 200 /\ response.authenticated = TRUE
        /\ ~HeaderGives("authenticated") =>
              response.status = 401 /\ response.authenticated = FALSE

\* a request with another cookie first and authToken=authenticated got 200
C14_Witness ==
    /\ response.sent
    /\ request.present
    /\ request.cookies = <<[name |-> "session", value |-> "Authenticated"],
                           [name |-> "authToken", value |-> "authenticated"]>>
    /\ response.status = 200
    /\ response.authenticated = TRUE

(***************************************************************************)
(* Projects (src/unnamed/part_008).  A post is its slug and the            *)
(* publishedAt string of its front matter, "YYYY-MM-DD"; getPosts returns  *)
(* the posts in directory order.  The range prop is its tuple, the empty   *)
(* tuple standing for an absent prop.                                      *)
(***************************************************************************)
DigitValue(c) == (CHOOSE i \in DOMAIN Digits : Digits[i] = c) - 1

\* the number a run of decimal digits denotes
RECURSIVE ParseDigits(_)
ParseDigits(s) ==
    IF s = <<>> THEN 0
    ELSE 10 * ParseDigits(SubSeq(s, 1, Len(s) - 1)) + DigitValue(s[Len(s)])

\* days from 1970-01-01 to the civil date y-m-d (proleptic Gregorian)
DaysFromCivil(y, m, d) ==
    LET yy  == IF m <= 2 THEN y - 1 ELSE y
        era == yy \div 400
        yoe == yy - era * 400
        mp  == IF m > 2 THEN m - 3 ELSE m + 9
        doy == (153 * mp + 2) \div 5 + d - 1
        doe == yoe * 365 + yoe \div 4 - yoe \div 100 + doy
    IN  era * 146097 + doe - 719468

\* new Date(s).getTime() for a date-only ISO string, in whole days: the time
\* value is UTC midnight of the day, 86400000 ms times this number, which is
\* exact in a double; the comparator only uses the sign of a difference
getTime(s) ==
    DaysFromCivil(ParseDigits(SubSeq(s, 1, 4)),
                  ParseDigits(SubSeq(s, 6, 7)),
                  ParseDigits(SubSeq(s, 9, 10)))

\* a comparator putting the older post first
CompareAscending(a, b) == getTime(a.publishedAt) - getTime(b.publishedAt)

\* the comparator Projects passes to sort
Compare(a, b) == getTime(b.publishedAt) - getTime(a.publishedAt)

\* Array.prototype.sort: a stable sort; x is placed after every element that
\* does not compare greater than it
RECURSIVE InsertSorted(_, _)
InsertSorted(sorted, x) ==
    IF sorted = <<>> THEN <<x>>
    ELSE IF Compare(Head(sorted), x) > 0
         THEN <<x>> \o sorted
         ELSE <<Head(sorted)>> \o InsertSorted(Tail(sorted), x)

RECURSIVE Sort(_)
Sort(list) ==
    IF list = <<>> THEN <<>>
    ELSE InsertSorted(Sort(SubSeq(list, 1, Len(list) - 1)), list[Len(list)])

Min(a, b) == IF a < b THEN a ELSE b
Max(a, b) == IF a > b THEN a ELSE b

\* Array.prototype.slice(start, end) with both arguments given
Slice(list, start, end) ==
    LET len  == Len(list)
        from == IF start < 0 THEN Max(len + start, 0) ELSE Min(start, len)
        to   == IF end < 0 THEN Max(len + end, 0) ELSE Min(end, len)
    IN  SubSeq(list, from + 1, to)

\* Projects slicing from range[0] instead of range[0] - 1
ProjectsFromRangeStart(allProjects, rng) ==
    LET sortedProjects == Sort(allProjects) IN
    IF rng # <<>>
    THEN Slice(sortedProjects,
               rng[1],
               IF Len(rng) > 1 THEN rng[2] ELSE Len(sortedProjects))
    ELSE sortedProjects

\* the list Projects maps to cards
Projects(allProjects, rng) ==
    LET sortedProjects == Sort(allProjects) IN
    IF rng # <<>>
    THEN Slice(sortedProjects,
               rng[1] - 1,
               IF Len(rng) > 1 THEN rng[2] ELSE Len(sortedProjects))
    ELSE sortedProjects

D(s) == [i \in 1..10 |-> IF i \in {5, 8} THEN "-" ELSE Digits[s[i] + 1]]

PublishedDates ==
    {D(<<2,0,2,4,0,0,2,0,2,9>>), D(<<2,0,2,4,0,0,3,0,0,1>>),
     D(<<2,0,2,4,0,1,2,0,3,1>>), D(<<2,0,2,5,0,0,1,0,0,1>>),
     D(<<2,0,2,5,0,0,1,0,1,8>>)}

PostSlugs == <<"a", "b", "c", "d", "e">>

RECURSIVE PostListsUpTo(_)
PostListsUpTo(n) ==
    IF n = 0 THEN {<<>>}
    ELSE LET L == PostListsUpTo(n - 1) IN
         L \cup {Append(l, [slug |-> PostSlugs[Len(l) + 1], publishedAt |-> d]) :
                    l \in {k \in L : Len(k) = n - 1}, d \in PublishedDates}

Ranges ==
    {<<>>} \cup {<<a>> : a \in 0..MaxPosts}
           \cup {<<a, b>> : a \in 0..MaxPosts, b \in 0..(MaxPosts + 1)}

notProjVars == <<slugVars, mdxVars, defaults, nodeVars, log, docVars, authVars, dynVars, parVars, numVars, fxVars>>

InitProjects ==
    /\ posts \in PostListsUpTo(MaxPosts)
    /\ range \in Ranges
    /\ displayed = NotDone
    /\ SlugIdle
    /\ MdxIdle
    /\ NodeIdle
    /\ DocIdle
    /\ AuthIdle
    /\ DynIdle
    /\ ParIdle
    /\ WidgetsIdle

RenderProjects ==
    /\ ~displayed.done
    /\ displayed' = Done(Projects(posts, range))
    /\ UNCHANGED <<posts, range, notProjVars>>

NextProjects == RenderProjects

SpecProjects == InitProjects /\ [][NextProjects]_vars

\* date s is a later calendar day than date t: the strings are compared
\* field by field, year first
LaterDay(s, t) ==
    \E i \in 1..10 :
        /\ DigitValue(IF s[i] = "-" THEN "0" ELSE s[i])
              > DigitValue(IF t[i] = "-" THEN "0" ELSE t[i])
        /\ \A j \in 1..(i - 1) : s[j] = t[j]

DistinctDates ==
    \A i, j \in 1..Len(posts) : i # j => posts[i].publishedAt # posts[j].publishedAt

\* C15: for every collection of N >= 2 posts with distinct publishedAt dates,
\* the list Projects displays is in strictly descending publishedAt order.
C15_StrictlyDescending ==
    (displayed.done /\ Len(posts) >= 2 /\ DistinctDates) =>
        \A i, j \in 1..Len(displayed.val) :
            i < j => LaterDay(displayed.val[i].publishedAt,
                              displayed.val[j].publishedAt)

\* three posts in neither order, dated across a leap day and a year's end,
\* are all displayed, latest first
C15_Witness ==
    /\ displayed.done
    /\ range = <<>>
    /\ Len(posts) = 3
    /\ posts[1].publishedAt = D(<<2,0,2,4,0,1,2,0,3,1>>)
    /\ posts[2].publishedAt = D(<<2,0,2,5,0,0,1,0,0,1>>)
    /\ posts[3].publishedAt = D(<<2,0,2,4,0,0,2,0,2,9>>)
    /\ displayed.val = <<posts[2], posts[1], posts[3]>>

(***************************************************************************)
(* The dynamic component registry (src/unnamed/part_007, lines 5-12 and    *)
(* 200-211) over the life of one process.  barrel is the module            *)
(* "@/once-ui/components", which holds the implementation of every dynamic *)
(* tag: each loader imports it and picks one export.  registry is the      *)
(* `components` object; wrappers[t] is the reference dynamic() made for    *)
(* tag t: whether its loader has run and how its promise settled.  A       *)
(* render walks the dynamic tags of a document in content order.           *)
(***************************************************************************)
ContentTags == {"Accordion", "Table", "Card"}

RECURSIVE TagListsUpTo(_)
TagListsUpTo(n) ==
    IF n = 0 THEN {<<>>}
    ELSE LET L == TagListsUpTo(n - 1) IN
         L \cup {Append(l, t) : l \in L, t \in ContentTags}

DynamicDocs == TagListsUpTo(MaxDoc) \ {<<>>}

notDynVars == <<slugVars, mdxVars, defaults, nodeVars, log, authVars, projVars, parVars, numVars, fxVars>>

InitDynamic ==
    /\ DynIdle
    /\ SlugIdle
    /\ MdxIdle
    /\ NodeIdle
    /\ DocIdle
    /\ AuthIdle
    /\ ProjIdle
    /\ ParIdle
    /\ WidgetsIdle

InFlight == ~aborted /\ Len(outs) < Len(doc)

\* evaluation of the MDX module: its static imports run first and evaluate
\* the barrel (the environment decides whether that succeeds); then the
\* `components` object is built, dynamic() wrapping each loader uncalled
EvalModule ==
    /\ registry = "none"
    /\ barrel = "unloaded"
    /\ \E outcome \in {"loaded", "failed"} :
          /\ barrel' = outcome
          /\ registry' = IF outcome = "loaded" THEN "built" ELSE "none"
    /\ UNCHANGED <<wrappers, docVars, notDynVars>>

\* a render of a document starts when none is in progress
StartRender(d) ==
    /\ registry = "built"
    /\ ~InFlight
    /\ doc' = d
    /\ outs' = <<>>
    /\ aborted' = FALSE
    /\ UNCHANGED <<barrel, registry, wrappers, notDynVars>>

\* the render reaches the next dynamic tag of the document: the first
\* encounter calls the loader and suspends; a resolved reference renders; a
\* rejected one throws, and nothing in the module catches it
Encounter ==
    /\ InFlight
    /\ LET t == doc[Len(outs) + 1]
           w == wrappers[t]
       IN  CASE w.status = "idle" ->
                  /\ wrappers' = [wrappers EXCEPT ![t] =
                                     [status |-> "pending", calls |-> w.calls + 1]]
                  /\ UNCHANGED <<outs, aborted>>
             [] w.status = "resolved" ->
                  /\ outs' = Append(outs, t)
                  /\ UNCHANGED <<wrappers, aborted>>
             [] w.status = "rejected" ->
                  /\ aborted' = TRUE
                  /\ UNCHANGED <<wrappers, outs>>
             [] OTHER -> FALSE
    /\ UNCHANGED <<barrel, registry, doc, notDynVars>>

\* the loader's promise settles: import() of the barrel and the pick of the
\* tag's export; the environment decides whether it yields a component
Settle(t) ==
    /\ wrappers[t].status = "pending"
    /\ \E outcome \in {"resolved", "rejected"} :
          wrappers' = [wrappers EXCEPT ![t].status = outcome]
    /\ UNCHANGED <<barrel, registry, docVars, notDynVars>>

NextDynamic ==
    \/ EvalModule
    \/ \E d \in DynamicDocs : StartRender(d)
    \/ Encounter
    \/ \E t \in DynamicTags : Settle(t)

SpecDynamic == InitDynamic /\ [][NextDynamic]_vars

\* the module that defines tag t's implementation has been evaluated
ImplementationLoaded(t) == barrel = "loaded"

\* some render has reached tag t
Encountered(t) == wrappers[t].status # "idle"

\* C16: no dynamic component's implementation is loaded when the registry
\* is constructed: for every tag of the registry, its implementation is
\* loaded only after that tag is first encountered in rendered content.
C16_LoadedOnlyAfterEncounter ==
    \A t \in DynamicTags : ImplementationLoaded(t) => Encountered(t)

\* C17: every entry of the registry is independent: when resolving one
\* tag's implementation fails, the failure stays at that tag's usage site
\* and every other tag of the document still resolves and renders.
C17_FailureConfined ==
    aborted =>
        \A i \in 1..Len(doc) :
            wrappers[doc[i]].status = "resolved" => i <= Len(outs)

\* C18: for each dynamic tag, loading of its implementation is triggered by
\* the first render that encounters the tag and happens at most once; every
\* later use reuses the resolved reference.
C18_LoadedByFirstEncounter ==
    [][\A t \in DynamicTags :
          /\ (~ImplementationLoaded(t) /\ ImplementationLoaded(t)') =>
                (wrappers[t].status = "idle" /\ wrappers'[t].status = "pending")
          /\ wrappers'[t].calls <= 1
          /\ wrappers[t].status = "resolved" => wrappers'[t] = wrappers[t]]_vars

(***************************************************************************)
(* Specification of renders sharing one process: the host runs up to two   *)
(* renders at a time, each a call of CustomMDX followed by MDXRemote       *)
(* rendering a tag with the table that call handed it, and starts new      *)
(* renders as earlier ones return.  The module-level `components` object   *)
(* (defaults) is the only state the renders have in common.                *)
(***************************************************************************)
SharedNames == {"h1", "Accordion", "Callout"}
SharedTags == SharedNames \cup {"p"}

SharedProps ==
    {[present |-> FALSE, map |-> NoEntries]}
        \cup {[present |-> TRUE, map |-> m] :
                 m \in UNION {[names -> OverrideValues] :
                                 names \in SubsetsUpTo(SharedNames, MaxOverrides)}}

notParVars == <<slugVars, mdxVars, nodeVars, log, docVars, authVars, projVars, dynVars, numVars, fxVars>>

InitShared ==
    /\ ParIdle
    /\ SlugIdle
    /\ MdxIdle
    /\ NodeIdle
    /\ DocIdle
    /\ AuthIdle
    /\ ProjIdle
    /\ DynIdle
    /\ WidgetsIdle

\* render d calls CustomMDX(props): the table is merged for this call
CallCustomMDX(d, prop) ==
    /\ slots[d].phase = "idle"
    /\ slots' = [slots EXCEPT ![d] =
                    [phase |-> "called", given |-> prop,
                     table |-> MergedComponents(prop), tag |-> "", used |-> ""]]
    /\ defaults' = DefaultsAfter(prop)
    /\ UNCHANGED <<past, notParVars>>

\* MDXRemote of render d renders a tag with the table it was handed
RenderShared(d, name) ==
    /\ slots[d].phase = "called"
    /\ slots' = [slots EXCEPT ![d].phase = "rendered",
                              ![d].tag = name,
                              ![d].used = Lookup(slots[d].table, name)]
    /\ UNCHANGED <<defaults, past, notParVars>>

\* render d returns its output; its overrides are remembered as past ones
ReturnShared(d) ==
    /\ slots[d].phase = "rendered"
    /\ past' = past \cup DOMAIN slots[d].given.map
    /\ slots' = [slots EXCEPT ![d] = IdleSlot]
    /\ UNCHANGED <<defaults, notParVars>>

NextShared ==
    \E d \in Slots :
        \/ \E prop \in SharedProps : CallCustomMDX(d, prop)
        \/ \E name \in SharedTags : RenderShared(d, name)
        \/ ReturnShared(d)

SpecShared == InitShared /\ [][NextShared]_vars

\* what a render of tag name with the given overrides produces when it is
\* the only call the process ever made
AloneOutput(prop, name) ==
    Lookup(Spread(components, IF prop.present THEN prop.map ELSE NoEntries), name)

\* C19: rendering is a pure function of the content and the merged tables:
\* after any sequence of CustomMDX calls with arbitrary override maps the
\* default table is unchanged, and a render with the same content and
\* overrides produces the same output as if it were the first call.
C19_DefaultsUnchanged ==
    /\ defaults = components
    /\ \A d \in Slots :
          slots[d].phase = "rendered" =>
              slots[d].used = AloneOutput(slots[d].given, slots[d].tag)

\* after a call that overrode h1 has returned, a render without overrides
\* still gets the default h1 renderer
C19_Witness ==
    /\ "h1" \in past
    /\ \E d \in Slots :
          /\ slots[d].phase = "rendered"
          /\ ~slots[d].given.present
          /\ slots[d].tag = "h1"
          /\ slots[d].used = components.h1

\* C20: for every interleaving of the renders of two independent documents,
\* each document's output equals the output of rendering it alone.
C20_InterleavingIndependent ==
    \A d, e \in Slots :
        (d # e /\ slots[d].phase = "rendered" /\ slots[e].phase # "idle") =>
            /\ slots[d].table =
                  Spread(components,
                         IF slots[d].given.present THEN slots[d].given.map
                         ELSE NoEntries)
            /\ slots[d].used = AloneOutput(slots[d].given, slots[d].tag)

\* two renders in flight at once, one overriding h1 and one not, have both
\* rendered h1, each with its own renderer
C20_Witness ==
    /\ slots[1].phase = "rendered"
    /\ slots[2].phase = "rendered"
    /\ slots[1].given.present
    /\ "h1" \in DOMAIN slots[1].given.map
    /\ slots[1].given.map["h1"] = "callerRenderer"
    /\ ~slots[2].given.present
    /\ slots[1].tag = "h1"
    /\ slots[2].tag = "h1"
    /\ slots[1].used = "callerRenderer"
    /\ slots[2].used = components.h1

(***************************************************************************)
(* Further properties of the slug deriver, checked under SpecSlug.         *)
(***************************************************************************)
\* heading content with every value that is not a string, a markup node or
\* a sequence replaced by the empty string, at every level
RECURSIVE Blanked(_)
Blanked(content) ==
    CASE content.kind = "string" -> content
      [] content.kind = "element" -> Elem(Blanked(content.children))
      [] content.kind = "array" ->
            Arr([i \in DOMAIN content.items |-> Blanked(content.items[i])])
      [] OTHER -> Str(<<>>)

\* C21: text extraction is total: content of a shape other than string,
\* markup node or sequence (null, undefined, a number, a boolean), at the
\* top level or inside a sequence or a node's children, contributes the
\* empty string to the slug.
C21_OtherShapesContributeNothing ==
    ret.done => ret.val = slugify(Blanked(arg))

(***************************************************************************)
(* Further properties of the transformers, checked under SpecNodes.        *)
(***************************************************************************)
\* C22: whatever additional attributes a link node carries, every link whose
\* target begins with neither "/" nor "#" is rendered with target="_blank"
\* and rel="noopener noreferrer", and every same-page anchor link (target
\* beginning with "#") is rendered without new-tab behaviour.
C22_ExternalLinksSafe ==
    IsLink =>
        LET href == node.href.val
            first == IF Len(href) > 0 THEN href[1] ELSE ""
        IN  /\ first \notin {"/", "#"} =>
                  /\ AttrOf("target") = "_blank"
                  /\ AttrOf("rel") = "noopener noreferrer"
            /\ first = "#" => AttrOf("target") # "_blank"

(***************************************************************************)
(* NumberInput (src/unnamed/part_001).  Numbers are integers; a text is a  *)
(* sequence of characters.  NaN is the not-a-number value of parseFloat.   *)
(***************************************************************************)
NaN == [kind |-> "NaN"]

\* Number.prototype.toString for an integer
toString(n) == IF n < 0 THEN <<"-">> \o ToDecimal(-n) ELSE ToDecimal(n)

\* String.prototype.padStart(width, "0")
padStart(s, width) ==
    IF Len(s) >= width THEN s
    ELSE [i \in 1..(width - Len(s)) |-> "0"] \o s

\* Number.parseFloat on a text without fraction or exponent: leading white
\* space is skipped, then an optional sign and the longest run of digits is
\* read; without a digit the result is NaN
parseFloat(s) ==
    LET t == SubSeq(s, RunLen(s, SpaceChars) + 1, Len(s))
        signed == t # <<>> /\ Head(t) \in {"-", "+"}
        u == IF signed THEN Tail(t) ELSE t
        n == RunLen(u, Range(Digits))
    IN  IF n = 0 THEN NaN
        ELSE LET m == ParseDigits(SubSeq(u, 1, n)) IN
             Num(IF signed /\ Head(t) = "-" THEN -m ELSE m)

\* a number in a boolean position: 0, NaN and undefined are falsy
TruthyNumber(v) == v.kind = "number" /\ v.num # 0

\* the initial localValue
InitialLocalValue(p) ==
    IF TruthyNumber(p.padStart) /\ p.value.kind # "undefined"
    THEN padStart(toString(p.value.num), p.padStart.num)
    ELSE IF p.value.kind = "undefined" THEN <<>> ELSE toString(p.value.num)

\* the step prop with its default of 1
StepOf(p) == IF p.step.kind = "undefined" THEN 1 ELSE p.step.num

\* formattedValue of updateValue
FormattedValue(p, newValue) ==
    IF TruthyNumber(p.padStart)
    THEN padStart(toString(newValue), p.padStart.num)
    ELSE toString(newValue)

\* Number.parseFloat(localValue) || 0
CurrentValue(text) ==
    LET v == parseFloat(text) IN IF TruthyNumber(v) THEN v.num ELSE 0

\* the guard of increment with < in place of <=
MaxAllowsBelow(p, newValue) == p.max.kind = "undefined" \/ newValue < p.max.num

\* the guard of increment: max === undefined || newValue <= max
MaxAllows(p, newValue) == p.max.kind = "undefined" \/ newValue <= p.max.num

\* the guard of decrement: min === undefined || newValue >= min
MinAllows(p, newValue) == p.min.kind = "undefined" \/ newValue >= p.min.num

NumberProps ==
    [value : {Undef, Num(0), Num(7)},
     min : {Undef, Num(-4), Num(5)},
     max : {Undef, Num(8)},
     step : {Undef, Num(2)},
     padStart : {Undef, Num(3)}]

\* what the user may type into the field
TypedTexts == {<<>>, <<"9">>, <<"-", "3">>}

notNumVars == <<slugVars, mdxVars, defaults, nodeVars, log, docVars, authVars,
                projVars, dynVars, parVars, fxVars>>

InitNumber ==
    /\ numProps \in NumberProps
    /\ localValue = InitialLocalValue(numProps)
    /\ reported = <<>>
    /\ pressed = [op |-> "none", before |-> <<>>, calls |-> 0]
    /\ SlugIdle
    /\ MdxIdle
    /\ NodeIdle
    /\ DocIdle
    /\ AuthIdle
    /\ ProjIdle
    /\ DynIdle
    /\ ParIdle
    /\ FxIdle

\* updateValue(newValue) called from the handler op
updateValue(op, newValue) ==
    /\ localValue' = FormattedValue(numProps, newValue)
    /\ reported' = Append(reported, [by |-> op, value |-> newValue])

increment ==
    /\ Len(reported) < MaxReports
    /\ pressed' = [op |-> "increment", before |-> localValue, calls |-> Len(reported)]
    /\ LET newValue == CurrentValue(localValue) + StepOf(numProps) IN
       IF MaxAllows(numProps, newValue)
       THEN updateValue("increment", newValue)
       ELSE UNCHANGED <<localValue, reported>>
    /\ UNCHANGED <<numProps, notNumVars>>

decrement ==
    /\ Len(reported) < MaxReports
    /\ pressed' = [op |-> "decrement", before |-> localValue, calls |-> Len(reported)]
    /\ LET newValue == CurrentValue(localValue) - StepOf(numProps) IN
       IF MinAllows(numProps, newValue)
       THEN updateValue("decrement", newValue)
       ELSE UNCHANGED <<localValue, reported>>
    /\ UNCHANGED <<numProps, notNumVars>>

handleChange(newValue) ==
    /\ Len(reported) < MaxReports
    /\ pressed' = [op |-> "change", before |-> localValue, calls |-> Len(reported)]
    /\ localValue' = newValue
    /\ LET numValue == parseFloat(newValue) IN
       reported' = IF numValue.kind # "NaN"
                   THEN Append(reported, [by |-> "change", value |-> numValue.num])
                   ELSE reported
    /\ UNCHANGED <<numProps, notNumVars>>

NextNumber ==
    \/ increment
    \/ decrement
    \/ \E newValue \in TypedTexts : handleChange(newValue)

SpecNumber == InitNumber /\ [][NextNumber]_vars

(***************************************************************************)
(* Properties of NumberInput, checked under SpecNumber.                    *)
(***************************************************************************)
LastReport == reported[Len(reported)]

\* the last handler took its step and reported v through onChange
Stepped(op, v) ==
    /\ Len(reported) = pressed.calls + 1
    /\ LastReport = [by |-> op, value |-> v]

\* the last handler was blocked: same text, no onChange call
Blocked ==
    /\ localValue = pressed.before
    /\ Len(reported) = pressed.calls

\* C23: increment changes the value to current + step only when max is
\* undefined or current + step <= max, and decrement changes it to
\* current - step only when min is undefined or current - step >= min
\* (current being the parsed displayed text, 0 when it does not parse); a
\* blocked step leaves the displayed text unchanged and does not call
\* onChange.
C23_StepsWithinBound ==
    LET current == CurrentValue(pressed.before)
        up == current + StepOf(numProps)
        down == current - StepOf(numProps)
    IN  /\ pressed.op = "increment" =>
              IF numProps.max.kind = "undefined" \/ up <= numProps.max.num
              THEN Stepped("increment", up)
              ELSE Blocked
        /\ pressed.op = "decrement" =>
              IF numProps.min.kind = "undefined" \/ down >= numProps.min.num
              THEN Stepped("decrement", down)
              ELSE Blocked

\* from 7 with max 8, one increment reached 8 and the next one was blocked
C23_Witness ==
    /\ numProps.max = Num(8)
    /\ numProps.step = Undef
    /\ pressed = [op |-> "increment", before |-> <<"8">>, calls |-> 1]
    /\ localValue = <<"8">>
    /\ reported = <<[by |-> "increment", value |-> 8]>>

\* C24: with min <= max both set, every value the stepper buttons report
\* through onChange lies in [min, max], after any sequence of steps and from
\* any displayed text, including an empty field.
C24_SteppersStayInRange ==
    (/\ numProps.min.kind = "number"
     /\ numProps.max.kind = "number"
     /\ numProps.min.num <= numProps.max.num) =>
        \A i \in 1..Len(reported) :
            reported[i].by \in {"increment", "decrement"} =>
                /\ numProps.min.num <= reported[i].value
                /\ reported[i].value <= numProps.max.num

\* C25: for every number n the steppers produce and every padStart width,
\* the displayed text parses back to n, so that consecutive unblocked
\* increments report values step apart, and so do consecutive decrements.
C25_DisplayParsesBack ==
    /\ (pressed.op \in {"increment", "decrement"}
            /\ Len(reported) = pressed.calls + 1) =>
          parseFloat(localValue) = Num(LastReport.value)
    /\ \A i \in 1..(Len(reported) - 1) :
          /\ (reported[i].by = "increment" /\ reported[i + 1].by = "increment") =>
                reported[i + 1].value = reported[i].value + StepOf(numProps)
          /\ (reported[i].by = "decrement" /\ reported[i + 1].by = "decrement") =>
                reported[i + 1].value = reported[i].value - StepOf(numProps)

(***************************************************************************)
(* GlitchFx (src/unnamed/part_000).  Time is in milliseconds and advances  *)
(* to the due time of the timer whose callback runs; mouse events and prop *)
(* changes happen between callbacks.  Two timers due at the same time may  *)
(* run in either order.                                                    *)
(***************************************************************************)
GlitchMs == 500

Triggers == {"instant", "hover", "custom"}
Intervals == {300, 500, 2500}

GlitchProps ==
    [trigger : Triggers, continuous : BOOLEAN, interval : Intervals]

\* useState(continuous || trigger === "instant"), and what the first effect
\* makes of isGlitching g when it runs
AfterModeEffect(p, g) ==
    IF p.continuous \/ p.trigger = "instant" THEN TRUE ELSE g

\* the second effect, run at time t: the interval exists for trigger custom
IntervalEffect(p, t) ==
    IF p.trigger = "custom"
    THEN [active |-> TRUE, due |-> t + p.interval]
    ELSE [active |-> FALSE, due |-> 0]

\* handleMouseEnter on isGlitching g
AfterMouseEnter(p, g) == IF p.trigger = "hover" THEN TRUE ELSE g

\* handleMouseLeave without the test of the trigger
AfterMouseLeaveAnyTrigger(p, g) == FALSE

\* handleMouseLeave on isGlitching g
AfterMouseLeave(p, g) == IF p.trigger = "hover" THEN FALSE ELSE g

notFxVars == <<slugVars, mdxVars, defaults, nodeVars, log, docVars, authVars,
               projVars, dynVars, parVars, numVars>>

\* the component after its first render and its effects
InitGlitch ==
    /\ fxProps \in GlitchProps
    /\ mounted = TRUE
    /\ isGlitching = AfterModeEffect(fxProps, FALSE)
    /\ glitchInterval = IntervalEffect(fxProps, 0)
    /\ timeouts = {}
    /\ now = 0
    /\ lastTick = -1
    /\ lastMouse = "none"
    /\ propChanges = 0
    /\ SlugIdle
    /\ MdxIdle
    /\ NodeIdle
    /\ DocIdle
    /\ AuthIdle
    /\ ProjIdle
    /\ DynIdle
    /\ ParIdle
    /\ NumIdle

handleMouseEnter ==
    /\ mounted
    /\ lastMouse # "enter"
    /\ isGlitching' = AfterMouseEnter(fxProps, isGlitching)
    /\ lastMouse' = "enter"
    /\ UNCHANGED <<fxProps, mounted, glitchInterval, timeouts, now, lastTick,
                   propChanges, notFxVars>>

handleMouseLeave ==
    /\ mounted
    /\ lastMouse = "enter"
    /\ isGlitching' = AfterMouseLeave(fxProps, isGlitching)
    /\ lastMouse' = "leave"
    /\ UNCHANGED <<fxProps, mounted, glitchInterval, timeouts, now, lastTick,
                   propChanges, notFxVars>>

\* the interval fires: triggerGlitch sets isGlitching and schedules the
\* 500 ms timeout; the interval is due again one interval later
triggerGlitch ==
    /\ glitchInterval.active
    /\ glitchInterval.due <= MaxTime
    /\ \A d \in timeouts : glitchInterval.due <= d
    /\ now' = glitchInterval.due
    /\ lastTick' = glitchInterval.due
    /\ glitchInterval' = [glitchInterval EXCEPT !.due = @ + fxProps.interval]
    /\ IF fxProps.trigger = "custom"
       THEN /\ isGlitching' = TRUE
            /\ timeouts' = timeouts \cup {glitchInterval.due + GlitchMs}
       ELSE UNCHANGED <<isGlitching, timeouts>>
    /\ UNCHANGED <<fxProps, mounted, lastMouse, propChanges, notFxVars>>

\* the earliest 500 ms timeout fires: setIsGlitching(false), which does
\* nothing once the component is unmounted
TimeoutFires ==
    /\ timeouts # {}
    /\ LET d == CHOOSE e \in timeouts : \A f \in timeouts : e <= f IN
          /\ d <= MaxTime
          /\ glitchInterval.active => d <= glitchInterval.due
          /\ now' = d
          /\ timeouts' = timeouts \ {d}
    /\ isGlitching' = IF mounted THEN FALSE ELSE isGlitching
    /\ UNCHANGED <<fxProps, mounted, glitchInterval, lastTick, lastMouse,
                   propChanges, notFxVars>>

\* the parent re-renders GlitchFx with another trigger: both effects run
\* again, the second one after its cleanup
SetTrigger(t) ==
    /\ mounted
    /\ propChanges < MaxChanges
    /\ t # fxProps.trigger
    /\ LET p == [fxProps EXCEPT !.trigger = t] IN
          /\ fxProps' = p
          /\ isGlitching' = AfterModeEffect(p, isGlitching)
          /\ glitchInterval' = IntervalEffect(p, now)
    /\ propChanges' = propChanges + 1
    /\ UNCHANGED <<mounted, timeouts, now, lastTick, lastMouse, notFxVars>>

\* the component unmounts: the cleanup of the second effect clears the
\* interval
Unmount ==
    /\ mounted
    /\ mounted' = FALSE
    /\ glitchInterval' = [active |-> FALSE, due |-> 0]
    /\ UNCHANGED <<fxProps, isGlitching, timeouts, now, lastTick, lastMouse,
                   propChanges, notFxVars>>

NextGlitch ==
    \/ handleMouseEnter
    \/ handleMouseLeave
    \/ triggerGlitch
    \/ TimeoutFires
    \/ \E t \in Triggers : SetTrigger(t)
    \/ Unmount

SpecGlitch == InitGlitch /\ [][NextGlitch]_vars

(***************************************************************************)
(* Properties of GlitchFx, checked under SpecGlitch.                       *)
(***************************************************************************)
\* C26: while the continuous prop is true, isGlitching is true in every
\* reachable state, for every trigger mode and any sequence of mouse
\* enter/leave events and timer callbacks.
C26_ContinuousKeepsGlitching ==
    (mounted /\ fxProps.continuous) => isGlitching

\* C27: with trigger "custom", once the component unmounts or trigger
\* changes away from "custom", no timer callback changes isGlitching any
\* more: the interval is cleared and no timeout scheduled by an earlier tick
\* fires afterwards.
C27_NoCallbackAfterCleanup ==
    [][(~mounted \/ fxProps.trigger # "custom") =>
          /\ ~glitchInterval.active
          /\ now' # now => isGlitching' = isGlitching]_vars

\* C28: with trigger "custom" and continuous false, for every interval
\* value, each interval tick makes isGlitching true, it stays true for the
\* full 500 ms after that tick, and is false from then until the next tick.
C28_GlitchLastsHalfSecond ==
    (mounted /\ fxProps.trigger = "custom" /\ ~fxProps.continuous
        /\ propChanges = 0) =>
        IF lastTick < 0 THEN ~isGlitching
        ELSE /\ now < lastTick + GlitchMs => isGlitching
             /\ now > lastTick + GlitchMs => ~isGlitching

\* C29: with trigger "hover" and continuous false, isGlitching is false
\* initially and, after any sequence of mouse enter and mouse leave events,
\* is true exactly when the last event was a mouse enter; with trigger
\* "instant" mouse events never change isGlitching.
C29_HoverFollowsMouse ==
    (mounted /\ propChanges = 0) =>
        /\ (fxProps.trigger = "hover" /\ ~fxProps.continuous) =>
              (isGlitching <=> lastMouse = "enter")
        /\ fxProps.trigger = "instant" => isGlitching

\* a hover component that was entered and left is not glitching
C29_Witness ==
    /\ mounted
    /\ propChanges = 0
    /\ fxProps.trigger = "hover"
    /\ ~fxProps.continuous
    /\ lastMouse = "leave"
    /\ ~isGlitching

(***************************************************************************)
(* Further properties of Projects, checked under SpecProjects.             *)
(***************************************************************************)
\* the orders of the loaded posts in which no post comes before a post of
\* a later day
DescendingOrders ==
    {S \in {[i \in 1..Len(posts) |-> posts[f[i]]] :
               f \in Permutations(1..Len(posts))} :
        \A i, j \in 1..Len(S) :
            i < j => ~LaterDay(S[j].publishedAt, S[i].publishedAt)}

\* positions a through b of S, 1-based, empty when there are none
Positions(S, a, b) == IF a > b THEN <<>> ELSE SubSeq(S, a, b)

\* C30: Projects with range [a, b], 1 <= a <= b, displays exactly the posts
\* at 1-based positions a through min(b, N) of the date-descending order of
\* the N loaded posts, in that order; with range [a] it displays positions
\* a through N; with no range it displays all N posts, each exactly once.
C30_RangeSelectsPositions ==
    displayed.done =>
        LET N == Len(posts) IN
        /\ (Len(range) = 2 /\ 1 <= range[1] /\ range[1] <= range[2]) =>
              \E S \in DescendingOrders :
                  displayed.val = Positions(S, range[1], Min(range[2], N))
        /\ (Len(range) = 1 /\ 1 <= range[1]) =>
              \E S \in DescendingOrders :
                  displayed.val = Positions(S, range[1], N)
        /\ range = <<>> => displayed.val \in DescendingOrders

\* of three posts in neither order, range [2, 4] displays the second and
\* the third of the descending order
C30_Witness ==
    /\ displayed.done
    /\ range = <<2, 4>>
    /\ Len(posts) = 3
    /\ posts[1].publishedAt = D(<<2,0,2,4,0,1,2,0,3,1>>)
    /\ posts[2].publishedAt = D(<<2,0,2,5,0,0,1,0,0,1>>)
    /\ posts[3].publishedAt = D(<<2,0,2,4,0,0,2,0,2,9>>)
    /\ displayed.val = <<posts[1], posts[3]>>

====
